---- MODULE Spec2Model ----
(***************************************************************************)
(* Model of frontend/vite.config.js: the path rewrite of the "/api" proxy  *)
(* rule,                                                                   *)
(*     rewrite: (path) => path.replace(/^\/api/, "")                       *)
(* A path is a sequence of one-character strings.  String.prototype.replace*)
(* with a non-global regular expression is modelled as the engine runs it: *)
(* the pattern is tried at every start index from the left, the first      *)
(* index where it matches is taken, and the matched span is replaced by    *)
(* the replacement string.                                                 *)
(***************************************************************************)
EXTENDS Integers, Sequences, FiniteSets

\* Longest path drawn character by character.
MaxLen == 5
\* Most copies of "/api" put in front of a drawn path.
MaxPrefix == 2

\* Characters of the request paths: the pattern's own characters, an
\* upper-case letter (the pattern has no i flag) and one other letter.
Chars == {"/", "a", "p", "i", "A", "x"}

\* The key of the proxy rule, server.proxy["/api"].
context == <<"/", "a", "p", "i">>

\* The literal characters of the pattern /^\/api/ (after the anchor).
PatternChars == <<"/", "a", "p", "i">>

\* The pattern /^\/api/ starts with the assertion ^.
PatternAnchored == TRUE

\* The second argument of replace: "".
Replacement == <<>>

\* Strings over Chars of length at most n.
StringsUpTo(n) == UNION {[1..k -> Chars] : k \in 0..n}

RECURSIVE Repeat(_, _)
Repeat(s, k) == IF k = 0 THEN <<>> ELSE s \o Repeat(s, k - 1)

\* The request paths the rewrite is applied to.
Inputs == {Repeat(context, k) \o s : k \in 0..MaxPrefix, s \in StringsUpTo(MaxLen)}

\* A plausible slip: the pattern written without its anchor, /\/api/.
RegExpMatchAtUnanchored(p, i) ==
    /\ i + Len(PatternChars) <= Len(p)
    /\ \A k \in 1..Len(PatternChars) : p[i + k] = PatternChars[k]

\* Does the pattern match p when the match starts after i characters?
\* ^ (no m flag) holds only at the start of the input; the literal
\* characters are compared exactly (no i flag).
RegExpMatchAt(p, i) ==
    /\ PatternAnchored => i = 0
    /\ i + Len(PatternChars) <= Len(p)
    /\ \A k \in 1..Len(PatternChars) : p[i + k] = PatternChars[k]

\* RegExp exec without the g flag: the leftmost start index with a match,
\* or -1 when there is none.
RegExpExec(p) ==
    LET hits == {i \in 0..Len(p) : RegExpMatchAt(p, i)}
    IN  IF hits = {} THEN -1
        ELSE CHOOSE i \in hits : \A j \in hits : i <= j

\* path.replace(/^\/api/, ""): the first match is replaced, the rest of
\* the string is kept; without a match the string is returned as it is.
replace(p) ==
    LET i == RegExpExec(p)
    IN  IF i = -1 THEN p
        ELSE SubSeq(p, 1, i) \o Replacement \o SubSeq(p, i + Len(PatternChars) + 1, Len(p))

\* rewrite: (path) => path.replace(/^\/api/, "")
rewrite(p) == replace(p)

VARIABLES pc, path, result

vars == <<pc, path, result>>

Init ==
    /\ pc = "request"
    /\ path \in Inputs
    /\ result = <<>>

\* The rewrite function is called with the request path.
Rewrite ==
    /\ pc = "request"
    /\ result' = rewrite(path)
    /\ pc' = "rewritten"
    /\ UNCHANGED path

Next == Rewrite

Spec == Init /\ [][Next]_vars

----
\* Reference notions used by the properties.

StartsWith(p, q) == Len(p) >= Len(q) /\ SubSeq(p, 1, Len(q)) = q

DropFirst(p, n) == [k \in 1..(Len(p) - n) |-> p[k + n]]

TypeOK ==
    /\ pc \in {"request", "rewritten"}
    /\ path \in Seq(Chars)
    /\ result \in Seq(Chars)

\* C1: the rewrite function returns a string for every path, and that
\* string is the path without its leading "/api" (removed once) when the
\* path starts with "/api", and the path itself otherwise.
C1_RewriteMatchesReference ==
    pc = "rewritten" =>
        /\ result \in Seq(Chars)
        /\ result = IF StartsWith(path, context)
                    THEN DropFirst(path, Len(context))
                    ELSE path

\* Reached: "/api/api" has been rewritten to "/api" (one removal only).
C1_Witness ==
    /\ pc = "rewritten"
    /\ path = context \o context
    /\ result = context

\* C10: for every path the "/api" rule matches by raw string prefix, the
\* result of the rewrite function is non-empty and begins with "/".
C10_RewrittenPathIsAbsolute ==
    (pc = "rewritten" /\ StartsWith(path, context)) =>
        /\ result # <<>>
        /\ result[1] = "/"

====
